---- MODULE Spec2Model ----
(***************************************************************************)
(* Model of prometheus-grafana-demo/app.py: a Flask application with three *)
(* handlers (index, healthz, metrics) sharing the process-wide metrics     *)
(* REQUEST_COUNT (a labelled counter) and REQUEST_LATENCY (a histogram).   *)
(*                                                                         *)
(* Durations are integers in milliseconds (the source uses float seconds): *)
(* 0.005 s = 5, 0.2 s = 200, bucket 0.25 s = 250, ...                      *)
(* Each server thread handles one request at a time; its position in the   *)
(* handler is pc[t].  One action is one statement of a handler; the calls  *)
(* into the metrics library (observe, labels().inc, generate_latest) are   *)
(* atomic steps, as the library serialises them with its own locks.        *)
(* A call "to /" is an invocation of index(); the HTTP method is not       *)
(* modelled because no handler reads it.  The wall clock is assumed not to *)
(* step backwards while a request is handled.                              *)
(***************************************************************************)
EXTENDS Integers, Sequences, FiniteSets, TLC

\* ---- bounds of the model -------------------------------------------------
MaxThreads == 2
MaxRequests == 3
MaxOverhead == 5000

\* ---- constants of the program --------------------------------------------
PauseMin == 5
PauseMax == 200
StatusOK == 200

Threads == 1..MaxThreads

\* bucket upper bounds of REQUEST_LATENCY, in ms; the library appends +Inf
UpperBounds == <<5, 10, 25, 50, 100, 250, 500, 1000, 2000, 5000>>
NumBuckets == Len(UpperBounds) + 1
InfBucket == NumBuckets

\* pauses random.uniform may draw (the two ends of the interval) and the
\* time the measurement may add on top of the pause
Pauses == {PauseMin, PauseMax}
Overheads == {0, MaxOverhead}

Paths == {"/", "/healthz", "/metrics"}

VARIABLES
    pc,            \* pc[t]: position of thread t in its handler, or "idle"
    pause,         \* pause[t]: the duration drawn for time.sleep
    latency,       \* latency[t]: local variable latency of index()
    counter,       \* REQUEST_COUNT: label tuple -> value, keys created lazily
    buckets,       \* REQUEST_LATENCY: per-bucket (non-cumulative) counts
    hsum,          \* REQUEST_LATENCY: sum of the samples
    body,          \* body[t]: output of generate_latest() held by metrics()
    dispatched,    \* number of requests accepted since process start
    servedBy,      \* servedBy[path]: requests to path answered so far
    maxObserved,   \* largest sample observed so far
    startedDuring, \* startedDuring[t]: the threads that have been asleep ever
                   \* since the last request of thread t began
    scrapedAfter   \* scrapedAfter[t]: the number of calls to / answered before
                   \* the scrape of thread t, when none was in flight; else -1

vars == <<pc, pause, latency, counter, buckets, hsum, body, dispatched,
          servedBy, maxObserved, startedDuring, scrapedAfter>>

registry == <<counter, buckets, hsum>>
locals == <<pause, latency, body>>

indexServed == servedBy["/"]
served == servedBy["/"] + servedBy["/healthz"] + servedBy["/metrics"]

\* ---- the metrics library --------------------------------------------------

\* labels(endpoint=..., method=..., http_status=...): label values are
\* converted to strings
LabelKey(endpoint, method, http_status) ==
    <<endpoint, method, ToString(http_status)>>

IndexKey == LabelKey("/", "GET", StatusOK)

\* value of a counter child, 0 when the child has not been created
CounterValue(c, key) == IF key \in DOMAIN c THEN c[key] ELSE 0

\* variant: the increment adds 2
CounterInc_by2(c, key) ==
    [k \in DOMAIN c \cup {key} |-> IF k = key THEN CounterValue(c, key) + 2
                                              ELSE c[k]]

\* Counter.labels(key).inc(): create the child on first use, add 1
CounterInc(c, key) ==
    [k \in DOMAIN c \cup {key} |-> IF k = key THEN CounterValue(c, key) + 1
                                              ELSE c[k]]

RECURSIVE SumKeys(_, _)
SumKeys(c, keys) ==
    IF keys = {} THEN 0
    ELSE LET k == CHOOSE x \in keys : TRUE
         IN c[k] + SumKeys(c, keys \ {k})

CounterTotal(c) == SumKeys(c, DOMAIN c)

\* variant: the bound is compared with < instead of <=
BucketOf_strict(amount) ==
    IF \E i \in 1..Len(UpperBounds) : amount < UpperBounds[i]
    THEN CHOOSE i \in 1..Len(UpperBounds) :
             /\ amount < UpperBounds[i]
             /\ \A j \in 1..(i - 1) : amount >= UpperBounds[j]
    ELSE InfBucket

\* Histogram.observe: the first bucket whose bound is >= the amount
BucketOf(amount) ==
    IF \E i \in 1..Len(UpperBounds) : amount <= UpperBounds[i]
    THEN CHOOSE i \in 1..Len(UpperBounds) :
             /\ amount <= UpperBounds[i]
             /\ \A j \in 1..(i - 1) : amount > UpperBounds[j]
    ELSE InfBucket

\* variant: the sample is dropped
HistogramObserve_none(b, amount) == b

HistogramObserve(b, amount) ==
    [b EXCEPT ![BucketOf(amount)] = @ + 1]

\* cumulative count of bucket i, accumulated when the histogram is collected
RECURSIVE Cumulative(_, _)
Cumulative(b, i) == IF i = 0 THEN 0 ELSE b[i] + Cumulative(b, i - 1)

\* variant: the +Inf bucket is left out of the count
HistCount_finite(b) == Cumulative(b, Len(UpperBounds))

HistCount(b) == Cumulative(b, InfBucket)

\* generate_latest(): the series of the two custom metrics
Exposition(c, b, s) ==
    [total  |-> c,
     bucket |-> [i \in 1..NumBuckets |-> Cumulative(b, i)],
     count  |-> HistCount(b),
     sum    |-> s]

NoBody == [total |-> << >>, bucket |-> << >>, count |-> 0, sum |-> 0]

\* ---- the server -----------------------------------------------------------

\* variant: a server that handles one request at a time
Threaded_off == FALSE

\* app.run(): the development server handles each request in its own thread
Threaded == TRUE

Route(path) ==
    CASE path = "/"        -> "i_start"
      [] path = "/healthz" -> "h_respond"
      [] path = "/metrics" -> "m_generate"

\* a request is given to a free thread (the free thread of lowest number:
\* threads are interchangeable); a server that is not threaded accepts a
\* request only when no other is being handled
CanAccept(t) ==
    /\ pc[t] = "idle"
    /\ \A q \in 1..(t - 1) : pc[q] # "idle"
    /\ Threaded \/ \A q \in Threads : pc[q] = "idle"

Dispatch(t, path) ==
    /\ CanAccept(t)
    /\ dispatched < MaxRequests
    /\ pc' = [pc EXCEPT ![t] = Route(path)]
    /\ dispatched' = dispatched + 1
    /\ startedDuring' = [startedDuring EXCEPT
                            ![t] = {q \in Threads : pc[q] = "i_sleep"}]
    /\ UNCHANGED <<locals, registry, servedBy, maxObserved, scrapedAfter>>

\* the thread has sent its response: the request to path is served
Served(t, path) ==
    /\ pc' = [pc EXCEPT ![t] = "idle"]
    /\ servedBy' = [servedBy EXCEPT ![path] = @ + 1]

\* ---- index() --------------------------------------------------------------

\* start = time.time(); random.uniform(0.005, 0.2); enter time.sleep
IndexStart(t) ==
    /\ pc[t] = "i_start"
    /\ \E p \in Pauses : pause' = [pause EXCEPT ![t] = p]
    /\ pc' = [pc EXCEPT ![t] = "i_sleep"]
    /\ UNCHANGED <<latency, body, registry, dispatched, servedBy, maxObserved,
                   startedDuring, scrapedAfter>>

\* variant: start is taken after the sleep instead of before it
IndexMeasure_late(t) ==
    /\ pc[t] = "i_sleep"
    /\ \E oh \in Overheads : latency' = [latency EXCEPT ![t] = oh]
    /\ pc' = [pc EXCEPT ![t] = "i_observe"]
    /\ startedDuring' = [q \in Threads |-> startedDuring[q] \ {t}]
    /\ UNCHANGED <<pause, body, registry, dispatched, servedBy, maxObserved,
                   scrapedAfter>>

\* time.sleep returns; latency = time.time() - start
IndexMeasure(t) ==
    /\ pc[t] = "i_sleep"
    /\ \E oh \in Overheads : latency' = [latency EXCEPT ![t] = pause[t] + oh]
    /\ pc' = [pc EXCEPT ![t] = "i_observe"]
    /\ startedDuring' = [q \in Threads |-> startedDuring[q] \ {t}]
    /\ UNCHANGED <<pause, body, registry, dispatched, servedBy, maxObserved,
                   scrapedAfter>>

\* REQUEST_LATENCY.observe(latency)
IndexObserve(t) ==
    /\ pc[t] = "i_observe"
    /\ buckets' = HistogramObserve(buckets, latency[t])
    /\ hsum' = hsum + latency[t]
    /\ maxObserved' = IF latency[t] > maxObserved THEN latency[t]
                                                  ELSE maxObserved
    /\ pc' = [pc EXCEPT ![t] = "i_inc"]
    /\ UNCHANGED <<locals, counter, dispatched, servedBy, startedDuring,
                   scrapedAfter>>

\* variant: an unsynchronised read-modify-write; two threads at the increment
\* may read the same value and both write value + 1
IndexInc_lost(t) ==
    /\ pc[t] = "i_inc"
    /\ counter' = CounterInc(counter, IndexKey)
    /\ \/ pc' = [pc EXCEPT ![t] = "i_respond"]
       \/ \E q \in Threads \ {t} :
             /\ pc[q] = "i_inc"
             /\ pc' = [pc EXCEPT ![t] = "i_respond", ![q] = "i_respond"]
    /\ UNCHANGED <<locals, buckets, hsum, dispatched, servedBy, maxObserved,
                   startedDuring, scrapedAfter>>

\* REQUEST_COUNT.labels(endpoint="/", method="GET", http_status=200).inc()
IndexInc(t) ==
    /\ pc[t] = "i_inc"
    /\ counter' = CounterInc(counter, IndexKey)
    /\ pc' = [pc EXCEPT ![t] = "i_respond"]
    /\ UNCHANGED <<locals, buckets, hsum, dispatched, servedBy, maxObserved,
                   startedDuring, scrapedAfter>>

\* jsonify({"ok": True, "latency_seconds": latency}), status 200 by default
IndexResponse(t) ==
    [status |-> 200, ok |-> TRUE, latency_seconds |-> latency[t]]

\* return the response; the locals of the call are gone
IndexRespond(t) ==
    /\ pc[t] = "i_respond"
    /\ Served(t, "/")
    /\ pause' = [pause EXCEPT ![t] = 0]
    /\ latency' = [latency EXCEPT ![t] = 0]
    /\ UNCHANGED <<body, registry, dispatched, maxObserved, startedDuring,
                   scrapedAfter>>

\* ---- healthz() ------------------------------------------------------------

\* variant: the liveness handler counts its own requests
Healthz_counting(t) ==
    /\ pc[t] = "h_respond"
    /\ counter' = CounterInc(counter, LabelKey("/healthz", "GET", StatusOK))
    /\ Served(t, "/healthz")
    /\ UNCHANGED <<locals, buckets, hsum, dispatched, maxObserved, startedDuring,
                   scrapedAfter>>

\* return "ok", 200
Healthz(t) ==
    /\ pc[t] = "h_respond"
    /\ Served(t, "/healthz")
    /\ UNCHANGED <<locals, registry, dispatched, maxObserved, startedDuring,
                   scrapedAfter>>

\* ---- metrics() ------------------------------------------------------------

IndexPcs == {"i_start", "i_sleep", "i_observe", "i_inc", "i_respond"}

NoIndexInFlight == \A q \in Threads : pc[q] \notin IndexPcs

\* variant: the exposition is rendered once, at import, and served from cache
MetricsGenerate_cached(t) ==
    /\ pc[t] = "m_generate"
    /\ body' = [body EXCEPT
                   ![t] = Exposition(<< >>, [i \in 1..NumBuckets |-> 0], 0)]
    /\ scrapedAfter' = [scrapedAfter EXCEPT
                           ![t] = IF NoIndexInFlight THEN indexServed ELSE -1]
    /\ pc' = [pc EXCEPT ![t] = "m_respond"]
    /\ UNCHANGED <<pause, latency, registry, dispatched, servedBy,
                   maxObserved, startedDuring>>

\* variant: the scrape resets the metrics it has reported
MetricsGenerate_reset(t) ==
    /\ pc[t] = "m_generate"
    /\ body' = [body EXCEPT ![t] = Exposition(counter, buckets, hsum)]
    /\ counter' = [k \in DOMAIN counter |-> 0]
    /\ buckets' = [i \in 1..NumBuckets |-> 0]
    /\ hsum' = 0
    /\ scrapedAfter' = [scrapedAfter EXCEPT
                           ![t] = IF NoIndexInFlight THEN indexServed ELSE -1]
    /\ pc' = [pc EXCEPT ![t] = "m_respond"]
    /\ UNCHANGED <<pause, latency, dispatched, servedBy, maxObserved,
                   startedDuring>>

\* generate_latest()
MetricsGenerate(t) ==
    /\ pc[t] = "m_generate"
    /\ body' = [body EXCEPT ![t] = Exposition(counter, buckets, hsum)]
    /\ scrapedAfter' = [scrapedAfter EXCEPT
                           ![t] = IF NoIndexInFlight THEN indexServed ELSE -1]
    /\ pc' = [pc EXCEPT ![t] = "m_respond"]
    /\ UNCHANGED <<pause, latency, registry, dispatched, servedBy,
                   maxObserved, startedDuring>>

\* <body>, 200, {"Content-Type": CONTENT_TYPE_LATEST}
MetricsResponse(t) == [status |-> 200, exposition |-> body[t]]

\* return the response
MetricsRespond(t) ==
    /\ pc[t] = "m_respond"
    /\ Served(t, "/metrics")
    /\ body' = [body EXCEPT ![t] = NoBody]
    /\ scrapedAfter' = [scrapedAfter EXCEPT ![t] = -1]
    /\ UNCHANGED <<pause, latency, registry, dispatched, maxObserved,
                   startedDuring>>

\* ---- the system -----------------------------------------------------------

Init ==
    /\ pc = [t \in Threads |-> "idle"]
    /\ pause = [t \in Threads |-> 0]
    /\ latency = [t \in Threads |-> 0]
    /\ counter = << >>
    /\ buckets = [i \in 1..NumBuckets |-> 0]
    /\ hsum = 0
    /\ body = [t \in Threads |-> NoBody]
    /\ dispatched = 0
    /\ servedBy = [p \in Paths |-> 0]
    /\ maxObserved = 0
    /\ startedDuring = [t \in Threads |-> {}]
    /\ scrapedAfter = [t \in Threads |-> -1]

Step(t) ==
    \/ IndexStart(t)
    \/ IndexMeasure(t)
    \/ IndexObserve(t)
    \/ IndexInc(t)
    \/ IndexRespond(t)
    \/ Healthz(t)
    \/ MetricsGenerate(t)
    \/ MetricsRespond(t)

Next ==
    \/ \E t \in Threads, path \in Paths : Dispatch(t, path)
    \/ \E t \in Threads : IndexStart(t)
    \/ \E t \in Threads : IndexMeasure(t)
    \/ \E t \in Threads : IndexObserve(t)
    \/ \E t \in Threads : IndexInc(t)
    \/ \E t \in Threads : IndexRespond(t)
    \/ \E t \in Threads : Healthz(t)
    \/ \E t \in Threads : MetricsGenerate(t)
    \/ \E t \in Threads : MetricsRespond(t)

Spec == Init /\ [][Next]_vars

\* every thread that is inside a handler keeps being scheduled, and
\* time.sleep returns
FairSpec == Spec /\ \A t \in Threads : WF_vars(Step(t))

TypeOK ==
    /\ pc \in [Threads -> {"idle", "h_respond", "m_generate", "m_respond"}
                          \cup IndexPcs]
    /\ dispatched \in 0..MaxRequests
    /\ served \in 0..dispatched
    /\ \A i \in 1..NumBuckets : buckets[i] \in 0..MaxRequests

\* ---- properties -----------------------------------------------------------

Idle == \A t \in Threads : pc[t] = "idle"

\* thread t takes the step that leaves position p
Leaves(t, p) == pc[t] = p /\ pc'[t] # p

\* the series sample_app_request_total{endpoint="/",method="GET",
\* http_status="200"} as it is written in the exposition
IndexSeries == <<"/", "GET", "200">>

\* C1: when no request to / is in flight, the counter has no key other than
\* (endpoint="/", method="GET", http_status=200) and the value of that key is
\* the number N of completed calls to /; each call increments that key by 1
\* and leaves every other key alone.
C1_QuiescentCount ==
    NoIndexInFlight =>
        /\ DOMAIN counter \subseteq {IndexSeries}
        /\ CounterValue(counter, IndexSeries) = indexServed
        /\ (indexServed > 0 => IndexSeries \in DOMAIN counter)

C1_IncStep ==
    \A t \in Threads :
        Leaves(t, "i_inc") =>
            /\ DOMAIN counter' = DOMAIN counter \cup {IndexSeries}
            /\ counter'[IndexSeries] = CounterValue(counter, IndexSeries) + 1
            /\ \A k \in DOMAIN counter \ {IndexSeries} :
                   counter'[k] = counter[k]

C1_CounterEqualsCalls == []C1_QuiescentCount /\ [][C1_IncStep]_vars

C1_Witness ==
    /\ Idle
    /\ indexServed = 2
    /\ servedBy["/healthz"] = 1
    /\ counter = (IndexSeries :> 2)

\* C2: no interleaving of concurrent / handlers loses an increment: the
\* counter summed over all keys is the number of / handlers that have passed
\* their increment, so once all K have completed it is exactly K.
C2_NoLostUpdate ==
    CounterTotal(counter) =
        indexServed + Cardinality({t \in Threads : pc[t] = "i_respond"})

\* two handlers in flight together have both incremented, after a third call
C2_Witness ==
    /\ \E t \in Threads, q \in Threads :
           t # q /\ pc[t] = "i_respond" /\ pc[q] = "i_respond"
    /\ indexServed = 1
    /\ CounterTotal(counter) = 3

C4_ObserveStep ==
    \A t \in Threads :
        Leaves(t, "i_observe") =>
            /\ HistCount(buckets') = HistCount(buckets) + 1
            /\ \A i \in 1..Len(UpperBounds) :
                   Cumulative(buckets', i) =
                       Cumulative(buckets, i)
                       + (IF UpperBounds[i] >= latency[t] THEN 1 ELSE 0)

C4_SmallestCoveringBucket ==
    \A i \in 1..Len(UpperBounds) :
        (/\ UpperBounds[i] > maxObserved
         /\ \A j \in 1..(i - 1) : UpperBounds[j] <= maxObserved)
        => /\ Cumulative(buckets, i) = HistCount(buckets)
           /\ (NoIndexInFlight => Cumulative(buckets, i) = indexServed)

C4_CumulativeBuckets == []C4_SmallestCoveringBucket /\ [][C4_ObserveStep]_vars

C4_Witness ==
    /\ Idle
    /\ indexServed = 2
    /\ maxObserved = PauseMax
    /\ buckets[1] = 1
    /\ Cumulative(buckets, 5) = 1
    /\ Cumulative(buckets, 6) = 2

\* C5: every step of a request to /healthz or /metrics (being dispatched,
\* generating the exposition, responding) leaves every counter key and the
\* histogram's buckets and sum unchanged.
C5_ReadOnlyStep ==
    (\E t \in Threads :
        \/ Leaves(t, "h_respond")
        \/ Leaves(t, "m_generate")
        \/ Leaves(t, "m_respond")
        \/ pc[t] = "idle" /\ pc'[t] \in {"h_respond", "m_generate"})
    => UNCHANGED <<counter, buckets, hsum>>

C5_HealthzMetricsReadOnly == [][C5_ReadOnlyStep]_vars

\* after a call to / was counted, a /healthz and a /metrics request have
\* been answered, and the totals are still 1
C5_Witness ==
    /\ Idle
    /\ servedBy["/healthz"] = 1
    /\ servedBy["/metrics"] = 1
    /\ indexServed = 1
    /\ HistCount(buckets) = 1
    /\ hsum = PauseMin
    /\ counter = (IndexSeries :> 1)

\* C6: the exposition a /metrics call returns is the registry's content at
\* the instant generate_latest runs; a scrape made when k calls to / have
\* completed and none is in flight reports the series
\* {endpoint="/",method="GET",http_status="200"} with value k (k >= 1).
C6_ScrapeReportsServed ==
    \A t \in Threads :
        (pc[t] = "m_respond" /\ scrapedAfter[t] >= 0) =>
            /\ CounterValue(MetricsResponse(t).exposition.total, IndexSeries)
                   = scrapedAfter[t]
            /\ scrapedAfter[t] >= 1 =>
                   IndexSeries \in DOMAIN MetricsResponse(t).exposition.total
            /\ MetricsResponse(t).exposition.count = scrapedAfter[t]

C6_ScrapeStep ==
    \A t \in Threads :
        Leaves(t, "m_generate") =>
            /\ body'[t].total = counter
            /\ body'[t].count = HistCount(buckets)
            /\ body'[t].sum = hsum
            /\ \A i \in 1..NumBuckets :
                   body'[t].bucket[i] = Cumulative(buckets, i)

C6_MetricsReadThrough == []C6_ScrapeReportsServed /\ [][C6_ScrapeStep]_vars

C6_Witness ==
    \E t \in Threads :
        /\ pc[t] = "m_respond"
        /\ scrapedAfter[t] = 1
        /\ MetricsResponse(t).exposition.total = (IndexSeries :> 1)

\* C7: every response of / has status 200 and ok = true, and its
\* latency_seconds is at least the pause that was drawn, which lies in
\* [5 ms, 200 ms], and at most 200 ms plus the measurement overhead; a
\* handler of / that has started has no way out but that response.
C7_IndexResponse ==
    \A t \in Threads :
        /\ pc[t] = "i_respond" =>
               /\ IndexResponse(t).status = 200
               /\ IndexResponse(t).ok = TRUE
               /\ pause[t] \in PauseMin..PauseMax
               /\ IndexResponse(t).latency_seconds >= pause[t]
               /\ IndexResponse(t).latency_seconds >= PauseMin
               /\ IndexResponse(t).latency_seconds <= PauseMax + MaxOverhead
        /\ pc[t] \in IndexPcs => ENABLED Step(t)

C7_Witness ==
    /\ \E t \in Threads :
           pc[t] = "i_respond" /\ IndexResponse(t).latency_seconds = PauseMin
    /\ \E t \in Threads :
           pc[t] = "i_respond" /\ IndexResponse(t).latency_seconds > PauseMax

\* C8: while a / handler is in its pause, a free thread can accept a request
\* to any path and every other thread inside a handler can take its next
\* step; and, the threads being scheduled fairly, every request to / is
\* answered.
C8_NonBlocking ==
    \A t \in Threads :
        pc[t] = "i_sleep" =>
            /\ ((\E q \in Threads : pc[q] = "idle")
                    /\ dispatched < MaxRequests) =>
                   \A path \in Paths :
                       ENABLED (\E q \in Threads : Dispatch(q, path))
            /\ \A q \in Threads \ {t} : pc[q] # "idle" => ENABLED Step(q)

\* a thread leaves index() only by responding, so "whenever t is inside
\* index() it later is not" says that its request is answered
C8_IndexCompletes ==
    \A t \in Threads : []<>(pc[t] \notin IndexPcs)

C8_PauseDoesNotBlock == []C8_NonBlocking /\ C8_IndexCompletes

\* a request to / that began while thread t was asleep has been answered,
\* and t is still in the same sleep
C8_Witness ==
    \E t \in Threads, q \in Threads :
        /\ q # t
        /\ pc[t] = "i_sleep"
        /\ t \in startedDuring[q]
        /\ pc[q] = "idle"
        /\ indexServed = 1
        /\ dispatched = 2

\* C9: the histogram's sample count exceeds the counter value of the / key by
\* the number of / handlers that are between observe and increment, and is
\* equal to it when there is none; no /metrics snapshot shows a sample count
\* below the counter value.
C9_HistogramLeadsCounter ==
    /\ HistCount(buckets) - CounterValue(counter, IndexSeries)
           = Cardinality({t \in Threads : pc[t] = "i_inc"})
    /\ \A t \in Threads :
           pc[t] = "m_respond" =>
               body[t].count >= CounterValue(body[t].total, IndexSeries)

C9_Witness ==
    \E t \in Threads :
        /\ pc[t] = "m_respond"
        /\ body[t].count = 1
        /\ CounterValue(body[t].total, IndexSeries) = 0
        /\ \E q \in Threads : pc[q] = "i_inc"

\* C10: no step removes a counter key, lowers a counter value or lowers the
\* cumulative count of a bucket, and a /metrics snapshot is never below a
\* snapshot taken before it.
AtLeast(later, earlier) ==
    /\ \A k \in DOMAIN earlier.total :
           k \in DOMAIN later.total /\ later.total[k] >= earlier.total[k]
    /\ \A i \in DOMAIN earlier.bucket : later.bucket[i] >= earlier.bucket[i]
    /\ later.count >= earlier.count

C10_MonotoneStep ==
    /\ \A k \in DOMAIN counter :
           k \in DOMAIN counter' /\ counter'[k] >= counter[k]
    /\ \A i \in 1..NumBuckets :
           Cumulative(buckets', i) >= Cumulative(buckets, i)
    /\ \A t \in Threads :
           Leaves(t, "m_generate") =>
               \A q \in Threads :
                   pc[q] = "m_respond" => AtLeast(body'[t], body[q])

C10_NeverDecreases == [][C10_MonotoneStep]_vars

\* two snapshots are held at once, the later one after a further call to /
C10_Witness ==
    \E t \in Threads, q \in Threads :
        /\ pc[q] = "m_respond"
        /\ body[q].count = 0
        /\ body[q].total = << >>
        /\ pc[t] = "m_respond"
        /\ body[t].count = 1
        /\ body[t].total = (IndexSeries :> 1)

====
